---- MODULE Spec2Model ----
(***************************************************************************)
(* The message indexing engine of claude-code-proxy                        *)
(* (proxy/internal/service/indexer.go): content normalisation, the         *)
(* content-addressed message store, the response reconciler and the        *)
(* per-exchange indexing transaction over SQLite.                          *)
(*                                                                         *)
(* JSON is modelled by its parsed value.  An optional JSON field is a      *)
(* sequence of length 0 (absent) or 1 (present).  Text is a TLA+ string.   *)
(***************************************************************************)
EXTENDS Integers, Sequences, FiniteSets, TLC

VARIABLES
    message_content,   \* committed rows of table message_content
    messages,          \* committed rows of table messages
    requests_context,  \* committed rows of table requests_context
    writer,            \* the call holding SQLite's write lock, or "none"
    tx,                \* per worker: the IndexRequest call in progress
    calls,             \* number of IndexRequest calls started
    rebuilds,          \* number of CreateTables(recreate = true) runs
    abandoned,         \* exchanges a call gave up on after interning
    fin,               \* reconciler harness: the assistant reply given
    fout,              \* reconciler harness: the two canonical messages
    requests,          \* rows of table requests: the captured exchanges
    run                \* the batch run (RunIndexMessages) in progress

vars == <<message_content, messages, requests_context, writer, tx, calls,
          rebuilds, abandoned, fin, fout, requests, run>>

dbvars == <<message_content, messages, requests_context, writer, tx, calls,
            rebuilds, abandoned>>

\* ---------------------------------------------------------------- bounds

MaxCalls == 3

MaxRebuilds == 1

MaxBlocks == 2

MaxRuns == 2

MaxEvents == 5

\* datetime(?, '-10 minutes'): the lookback of incremental selection, in
\* the unit of the timestamps (minutes).
Lookback == 10

\* ------------------------------------------------------------- JSON data

None == <<>>

Some(x) == <<x>>

IsSome(o) == Len(o) > 0

Get(o) == o[1]

\* The string a Go type assertion v.(string) leaves: "" when absent.
StrOr(o) == IF IsSome(o) THEN Get(o) ELSE ""

\* A parsed JSON value standing for itself (an object or array).
JsonValue(text) == [k |-> "json", v |-> text]

\* A JSON string value.
JsonString(text) == [k |-> "string", v |-> text]

\* One content block: the keys it carries.
Block(type, text, thinking, id, name, input, cc) ==
    [type |-> type, text |-> text, thinking |-> thinking, id |-> id,
     name |-> name, input |-> input, cache_control |-> cc]

TextBlock(t) == Block("text", Some(t), None, None, None, None, FALSE)

TextBlockCC(t) == Block("text", Some(t), None, None, None, None, TRUE)

ThinkingBlock(t) == Block("thinking", None, Some(t), None, None, None, FALSE)

ToolUseBlock(id, name, input) ==
    Block("tool_use", None, None, Some(id), Some(name), Some(input), FALSE)

\* The content field of a message or response body.
\* form: "absent" | "null" | "string" | "array"
StringContent(t) == [form |-> "string", text |-> t, blocks |-> <<>>]

ArrayContent(bs) == [form |-> "array", text |-> "", blocks |-> bs]

NullContent == [form |-> "null", text |-> "", blocks |-> <<>>]

AbsentContent == [form |-> "absent", text |-> "", blocks |-> <<>>]

\* One element of request.messages.
\* kind: "object" | "null" | "scalar" (a JSON number, string or array)
Msg(role, content) == [kind |-> "object", role |-> role, content |-> content]

ScalarMsg == [kind |-> "scalar", role |-> "", content |-> AbsentContent]

\* ------------------------------------------------------ string utilities

RECURSIVE Join(_, _)
\* strings.Join
Join(parts, sep) ==
    IF Len(parts) = 0 THEN ""
    ELSE IF Len(parts) = 1 THEN parts[1]
    ELSE parts[1] \o sep \o Join(Tail(parts), sep)

Digits == <<"0", "1", "2", "3", "4", "5", "6", "7", "8", "9">>

RECURSIVE FormatInt(_)
\* strconv.FormatInt(n, 10) for n >= 0
FormatInt(n) ==
    IF n < 10 THEN Digits[n + 1]
    ELSE FormatInt(n \div 10) \o Digits[(n % 10) + 1]

\* ------------------------------------------------------------ normalizer

StripCacheControlMut(b) == b

\* delete(blockMap, "cache_control")
StripCacheControl(b) == [b EXCEPT !.cache_control = FALSE]

normalizeMessageMut(msgRaw) == msgRaw

\* normalizeMessage: string content becomes one text block, cache_control
\* is removed from every block of array content, the rest is re-marshalled
\* unchanged; input that is no JSON object falls back to the raw bytes.
normalizeMessage(msgRaw) ==
    IF msgRaw.kind # "object" THEN msgRaw
    ELSE IF msgRaw.content.form = "string"
         THEN [msgRaw EXCEPT !.content =
                   ArrayContent(<<TextBlock(msgRaw.content.text)>>)]
    ELSE IF msgRaw.content.form = "array"
         THEN [msgRaw EXCEPT !.content.blocks =
                   [i \in 1..Len(msgRaw.content.blocks) |->
                        StripCacheControl(msgRaw.content.blocks[i])]]
    ELSE msgRaw

\* sha256Hash: collision-free digest of the canonical bytes.
sha256Hash(data) == <<"sha256", data>>

\* computeSignature: the block types joined by ","; "text" for a string.
computeSignature(content) ==
    IF content.form = "array"
    THEN Join([i \in 1..Len(content.blocks) |-> content.blocks[i].type], ",")
    ELSE IF content.form = "string" THEN "text"
    ELSE ""

\* ---------------------------------------------------- response reconciler

\* One element of streamingChunks after TrimPrefix("data: ") and
\* json.Unmarshal; valid = FALSE when the chunk is no JSON object.
Event(type, index, content_block, delta) ==
    [valid |-> TRUE, type |-> type, index |-> index,
     content_block |-> content_block, delta |-> delta]

GarbageChunk ==
    [valid |-> FALSE, type |-> "", index |-> None, content_block |-> None,
     delta |-> None]

Delta(type, text, thinking, partial_json, stop_reason) ==
    [type |-> type, text |-> text, thinking |-> thinking,
     partial_json |-> partial_json, stop_reason |-> stop_reason]

\* The captured response: present = FALSE when the column is NULL or empty,
\* valid = FALSE when it is no JSON object of the expected field types.
Response(statusCode, isStreaming, body, streamingChunks) ==
    [present |-> TRUE, valid |-> TRUE, statusCode |-> statusCode,
     isStreaming |-> isStreaming, body |-> body,
     streamingChunks |-> streamingChunks]

NoResponse ==
    [present |-> FALSE, valid |-> FALSE, statusCode |-> 0,
     isStreaming |-> FALSE, body |-> None, streamingChunks |-> <<>>]

\* response.body; valid = FALSE when it is no JSON object.
Body(role, content, stop_reason, id) ==
    [valid |-> TRUE, role |-> role, content |-> content,
     stop_reason |-> stop_reason, id |-> id]

\* contentBlock{} of reconstructStreamingResponse
EmptyAcc ==
    [Type |-> "", Text |-> "", Thinking |-> "", Input |-> "", ID |-> "",
     Name |-> ""]

\* event["index"].(float64): 0 when the field is missing
EventIndex(ev) == IF IsSome(ev.index) THEN Get(ev.index) ELSE 0

RECURSIVE Grow(_, _)
\* for len(blocks) <= int(idx) { blocks = append(blocks, contentBlock{}) }
Grow(blocks, idx) ==
    IF Len(blocks) <= idx THEN Grow(Append(blocks, EmptyAcc), idx) ELSE blocks

\* case "content_block_start"
ContentBlockStart(st, ev) ==
    LET idx == EventIndex(ev)
        grown == Grow(st.blocks, idx)
    IN  IF ~IsSome(ev.content_block) THEN [st EXCEPT !.blocks = grown]
        ELSE IF idx < 0 THEN [st EXCEPT !.panic = TRUE]
        ELSE LET cb == Get(ev.content_block)
                 old == grown[idx + 1]
                 new == [old EXCEPT
                          !.Type = cb.type,
                          !.ID = StrOr(cb.id),
                          !.Name = StrOr(cb.name),
                          !.Text = IF IsSome(cb.text) THEN Get(cb.text) ELSE @,
                          !.Thinking = IF IsSome(cb.thinking)
                                       THEN Get(cb.thinking) ELSE @]
             IN  [st EXCEPT !.blocks = [grown EXCEPT ![idx + 1] = new]]

ContentBlockDeltaMut(st, ev) ==
    LET idx == EventIndex(ev) IN
    IF ~(idx < Len(st.blocks)) \/ ~IsSome(ev.delta) \/ idx < 0 THEN st
    ELSE LET d == Get(ev.delta) IN
         [st EXCEPT !.blocks[idx + 1] =
            IF d.type = "text_delta" /\ IsSome(d.text)
            THEN [@ EXCEPT !.Text = Get(d.text) \o @]
            ELSE IF d.type = "thinking_delta" /\ IsSome(d.thinking)
            THEN [@ EXCEPT !.Thinking = Get(d.thinking) \o @]
            ELSE IF d.type = "input_json_delta" /\ IsSome(d.partial_json)
            THEN [@ EXCEPT !.Input = Get(d.partial_json) \o @]
            ELSE @]

\* case "content_block_delta"
ContentBlockDelta(st, ev) ==
    LET idx == EventIndex(ev) IN
    IF ~(idx < Len(st.blocks)) \/ ~IsSome(ev.delta) THEN st
    ELSE LET d == Get(ev.delta)
             hit == \/ d.type = "text_delta" /\ IsSome(d.text)
                    \/ d.type = "thinking_delta" /\ IsSome(d.thinking)
                    \/ d.type = "input_json_delta" /\ IsSome(d.partial_json)
         IN  IF ~hit THEN st
             ELSE IF idx < 0 THEN [st EXCEPT !.panic = TRUE]
             ELSE [st EXCEPT !.blocks[idx + 1] =
                    IF d.type = "text_delta"
                    THEN [@ EXCEPT !.Text = @ \o Get(d.text)]
                    ELSE IF d.type = "thinking_delta"
                    THEN [@ EXCEPT !.Thinking = @ \o Get(d.thinking)]
                    ELSE [@ EXCEPT !.Input = @ \o Get(d.partial_json)]]

RECURSIVE ReplayChunks(_, _)
\* the chunk loop of reconstructStreamingResponse; a runtime panic stops it
ReplayChunks(st, chunks) ==
    IF Len(chunks) = 0 \/ st.panic THEN st
    ELSE LET ev == Head(chunks)
             nxt == IF ~ev.valid THEN st
                    ELSE IF ev.type = "content_block_start"
                         THEN ContentBlockStart(st, ev)
                    ELSE IF ev.type = "content_block_delta"
                         THEN ContentBlockDelta(st, ev)
                    ELSE st
         IN  ReplayChunks(nxt, Tail(chunks))

\* The texts json.Unmarshal accepts among the tool inputs of the model.
ValidJSON == {"{}", "{\"p\":1}"}

\* json.Unmarshal([]byte(block.Input), &input), else the raw string
ToolInput(acc) == IF acc \in ValidJSON THEN JsonValue(acc) ELSE JsonString(acc)

\* the "Build content array" loop body
BuildBlock(b) ==
    IF b.Type = "text"
    THEN Block("text", Some(b.Text), None, None, None, None, FALSE)
    ELSE IF b.Type = "thinking"
    THEN Block("thinking", None, Some(b.Thinking), None, None, None, FALSE)
    ELSE IF b.Type = "tool_use"
    THEN Block("tool_use", None, None, Some(b.ID), Some(b.Name),
               Some(ToolInput(b.Input)), FALSE)
    ELSE Block(b.Type, None, None, None, None, None, FALSE)

\* reconstructStreamingResponse: [panic, msg]; content marshals as null
\* when no block was allocated (a nil slice).
reconstructStreamingResponse(chunks) ==
    LET st == ReplayChunks([panic |-> FALSE, blocks |-> <<>>], chunks)
        content == IF Len(st.blocks) = 0 THEN NullContent
                   ELSE ArrayContent([i \in 1..Len(st.blocks) |->
                                          BuildBlock(st.blocks[i])])
    IN  [panic |-> st.panic, msg |-> Msg("assistant", content)]

\* extractNonStreamingResponse: None stands for nil
extractNonStreamingResponse(body) ==
    IF ~body.valid THEN None
    ELSE IF \/ body.role = ""
            \/ body.content.form \in {"absent", "null"}
            \/ body.content.form = "array" /\ Len(body.content.blocks) = 0
    THEN None
    ELSE Some(Msg(body.role, body.content))

\* "tool_use=" + name when a name is present
SignatureTag(b) ==
    IF b.type = "tool_use" /\ StrOr(b.name) # ""
    THEN "tool_use=" \o StrOr(b.name) ELSE b.type

RECURSIVE parseStreamingChunks(_)
\* parseStreamingChunks: [contentTypes, stopReason]
parseStreamingChunks(chunks) ==
    IF Len(chunks) = 0 THEN [contentTypes |-> <<>>, stopReason |-> ""]
    ELSE LET ev == chunks[Len(chunks)]
             rest == parseStreamingChunks(SubSeq(chunks, 1, Len(chunks) - 1))
         IN  IF ~ev.valid THEN rest
             ELSE IF ev.type = "content_block_start" /\ IsSome(ev.content_block)
             THEN [rest EXCEPT !.contentTypes =
                       Append(@, SignatureTag(Get(ev.content_block)))]
             ELSE IF /\ ev.type = "message_delta"
                     /\ IsSome(ev.delta)
                     /\ StrOr(Get(ev.delta).stop_reason) # ""
             THEN [rest EXCEPT !.stopReason = StrOr(Get(ev.delta).stop_reason)]
             ELSE rest

NoMeta ==
    [statusCode |-> None, streaming |-> None, stopReason |-> None,
     responseID |-> None, responseRole |-> None, responseSignature |-> None]

\* lines 64-98: the fields taken from response.body
BodyMeta(meta, body) ==
    IF ~body.valid \/ body.content.form = "string" THEN meta
    ELSE [meta EXCEPT
            !.stopReason = IF body.stop_reason # ""
                           THEN Some(body.stop_reason) ELSE @,
            !.responseID = IF body.id # "" THEN Some(body.id) ELSE @,
            !.responseRole = IF body.role # "" THEN Some(body.role) ELSE @,
            !.responseSignature =
                IF Len(body.content.blocks) > 0
                THEN Some(Join([i \in 1..Len(body.content.blocks) |->
                                   SignatureTag(body.content.blocks[i])], ","))
                ELSE @]

\* lines 101-116: the streamingChunks fallback
ChunksMeta(meta, response) ==
    IF ~(meta.responseSignature = None \/ meta.stopReason = None) THEN meta
    ELSE IF ~response.valid \/ Len(response.streamingChunks) = 0 THEN meta
    ELSE LET p == parseStreamingChunks(response.streamingChunks) IN
         [meta EXCEPT
            !.responseSignature =
                IF @ = None /\ Len(p.contentTypes) > 0
                THEN Some(Join(p.contentTypes, ",")) ELSE @,
            !.stopReason = IF @ = None /\ p.stopReason # ""
                           THEN Some(p.stopReason) ELSE @]

\* extractResponseMetadata
extractResponseMetadata(response) ==
    IF ~response.present THEN NoMeta
    ELSE LET m1 == IF ~response.valid THEN NoMeta
                   ELSE [NoMeta EXCEPT
                           !.statusCode = IF response.statusCode # 0
                                          THEN Some(response.statusCode)
                                          ELSE None,
                           !.streaming = Some(IF response.isStreaming
                                              THEN 1 ELSE 0)]
             m2 == IF response.valid /\ IsSome(response.body)
                   THEN BodyMeta(m1, Get(response.body)) ELSE m1
         IN  ChunksMeta(m2, response)

\* IndexRequest lines 348-370: the response message to intern:
\* [panic, msg] with msg = None when there is none.
ResponseMessage(response) ==
    IF ~response.present \/ ~response.valid
    THEN [panic |-> FALSE, msg |-> None]
    ELSE LET nonStreaming == IF IsSome(response.body)
                             THEN extractNonStreamingResponse(Get(response.body))
                             ELSE None
         IN  IF IsSome(nonStreaming) THEN [panic |-> FALSE, msg |-> nonStreaming]
             ELSE IF Len(response.streamingChunks) = 0
             THEN [panic |-> FALSE, msg |-> None]
             ELSE LET r == reconstructStreamingResponse(response.streamingChunks)
                  IN  [panic |-> r.panic, msg |-> Some(r.msg)]

\* ------------------------------------------------- the captured exchanges

UserA == Msg("user", StringContent("a"))

UserACached == Msg("user", ArrayContent(<<TextBlockCC("a")>>))

AssistantB == Msg("assistant", ArrayContent(<<TextBlock("b")>>))

UserC == Msg("user", StringContent("c"))

BufferedB ==
    Response(200, FALSE,
             Some(Body("assistant", ArrayContent(<<TextBlock("b")>>),
                       "end_turn", "msg_1")),
             <<>>)

StreamedD ==
    Response(200, TRUE, None,
             <<Event("message_start", None, None, None),
               Event("content_block_start", Some(0), Some(TextBlock("")), None),
               Event("content_block_delta", Some(0), None,
                     Some(Delta("text_delta", Some("d"), None, None, None))),
               Event("content_block_stop", Some(0), None, None),
               Event("message_delta", None, None,
                     Some(Delta("", None, None, None, Some("end_turn"))))>>)

Exchange(timestamp, bodyValid, msgs, response) ==
    [timestamp |-> timestamp, bodyValid |-> bodyValid, messages |-> msgs,
     response |-> response]

ExchangeIds == {"e1", "e2", "e3", "e4", "e5"}

\* The rows of table requests (id, timestamp, body, response) the indexer
\* is run on: a first turn, the same conversation two messages later with
\* the first message re-sent in array form under a cache hint, a request
\* whose second message is no message object, an unparseable body and a
\* body without messages.
Requests ==
    [e \in ExchangeIds |->
        CASE e = "e1" -> Exchange(1, TRUE, <<UserA>>, BufferedB)
          [] e = "e2" -> Exchange(2, TRUE, <<UserACached, AssistantB, UserC>>,
                                  StreamedD)
          [] e = "e3" -> Exchange(3, TRUE, <<UserA, ScalarMsg>>, NoResponse)
          [] e = "e4" -> Exchange(4, FALSE, <<>>, NoResponse)
          [] OTHER -> Exchange(5, TRUE, <<>>, NoResponse)]

\* ------------------------------------------------------------ the store

Workers == {"w1", "w2"}

\* No batch run has started.  A run holds its options, the sequence it
\* selected, what is left of it, and per attempted exchange the outcome.
IdleRun ==
    [pc |-> "idle", runs |-> 0, forceRecreate |-> FALSE,
     continueOnError |-> FALSE, requests |-> <<>>, queue |-> <<>>,
     attempted |-> <<>>, outcomes |-> <<>>, successCount |-> 0,
     errorCount |-> 0, result |-> ""]

Max(S) == CHOOSE x \in S : \A y \in S : y <= x

\* SQLite's rowid allocation: one more than the largest in the table.
NextRowID(ids) == IF ids = {} THEN 1 ELSE Max(ids) + 1

IdleTx ==
    [pc |-> "idle", req |-> "", msgPos |-> 0, contextIDs |-> <<>>,
     lastMessageID |-> 0, messageID |-> 0, snap |-> FALSE, stale |-> FALSE,
     wContent |-> {}, wMessages |-> {}, wCtx |-> {},
     responseMessageID |-> None, result |-> "", err |-> "",
     reindex |-> FALSE, raced |-> FALSE, retry |-> FALSE]

\* The call has returned: result "ok" | "error" | "interrupted" | "panic".
DoneTx(t, result, err) ==
    [IdleTx EXCEPT !.pc = "done", !.req = t.req, !.result = result,
                   !.err = err, !.reindex = t.reindex, !.raced = t.raced,
                   !.retry = t.retry]

InTx(w) ==
    tx[w].pc \in {"lookup", "insertContent", "insertMsg", "response",
                  "insertCtx", "commit"}

\* What the statements of w's transaction read.
ViewContent(w) == message_content \cup tx[w].wContent

ViewMessages(w) == messages \cup tx[w].wMessages

ViewCtx(w) == requests_context \cup tx[w].wCtx

ConstraintViolationMut(keys, key) == FALSE

\* UNIQUE(message_hash), PRIMARY KEY(id, message_position) and
\* PRIMARY KEY(id) of the schema.
ConstraintViolation(keys, key) == key \in keys

\* A deferred transaction cannot start writing while another connection
\* holds the write lock (busy timeout) or has committed since its snapshot;
\* once it holds the write lock its statements are not blocked.
WriteBlocked(w) == writer # w /\ (writer # "none" \/ tx[w].stale)

\* SELECT id FROM message_content WHERE message_hash = ?
LookupID(rows, hash) == {r.id : r \in {x \in rows : x.message_hash = hash}}

InsertContentResultMut(w, hash) == "ok"

\* The outcome of INSERT INTO message_content ... RETURNING id
InsertContentResult(w, hash) ==
    IF WriteBlocked(w) THEN "busy"
    ELSE IF ConstraintViolation({r.message_hash : r \in ViewContent(w)}, hash)
    THEN "constraint"
    ELSE "ok"

\* The outcome of INSERT INTO messages
InsertMsgResult(w, id, pos) ==
    IF WriteBlocked(w) THEN "busy"
    ELSE IF ConstraintViolation(
                {<<r.id, r.message_position>> : r \in ViewMessages(w)},
                <<id, pos>>)
    THEN "constraint"
    ELSE "ok"

\* The outcome of INSERT INTO requests_context
InsertCtxResult(w, id) ==
    IF WriteBlocked(w) THEN "busy"
    ELSE IF ConstraintViolation({r.id : r \in ViewCtx(w)}, id)
    THEN "constraint"
    ELSE "ok"

ContentRow(id, hash, role, signature, content, createdBy) ==
    [id |-> id, message_hash |-> hash, role |-> role,
     signature |-> signature, content |-> content, created_by |-> createdBy]

RolledBackMut(table, writes) == table \cup writes

\* defer tx.Rollback(): a table after the transaction is abandoned
RolledBack(table, writes) == table

\* The call has interned (found or inserted) at least one message.
Interned(t) == t.pc # "lookup" \/ t.msgPos > 1

\* The call returns without committing; its transaction is rolled back.
Abandon(w, t, result, err) ==
    /\ message_content' = RolledBack(message_content, tx[w].wContent)
    /\ messages' = RolledBack(messages, tx[w].wMessages)
    /\ requests_context' = RolledBack(requests_context, tx[w].wCtx)
    /\ writer' = IF writer = w THEN "none" ELSE writer
    /\ tx' = [tx EXCEPT ![w] = DoneTx(t, result, err)]
    /\ abandoned' = IF Interned(t) THEN abandoned \cup {t.req} ELSE abandoned
    /\ UNCHANGED <<calls, rebuilds, fin, fout, requests, run>>

\* ------------------------------------------------------- IndexRequest

\* The message the loop is at, and its hash (lines 306-307).
CurrentMsg(w) == requests[tx[w].req].messages[tx[w].msgPos]

CurrentHash(w) == sha256Hash(normalizeMessage(CurrentMsg(w)))

\* Whether another call has stored or is storing this hash.
StoredElsewhere(w, hash) ==
    \/ \E r \in message_content : r.message_hash = hash
    \/ \E u \in Workers \ {w} : \E r \in tx[u].wContent : r.message_hash = hash

BeginIndexMut(w, e) ==
    tx' = [tx EXCEPT ![w] =
             LET t == [IdleTx EXCEPT !.req = e, !.retry = e \in abandoned]
             IN  IF ~requests[e].bodyValid \/ Len(requests[e].messages) = 0
                 THEN DoneTx(t, "error", "parse")
                 ELSE [t EXCEPT !.pc = "lookup", !.msgPos = 1]]

\* Lines 237-263: parse the body and open the transaction.
BeginIndex(w, e) ==
    tx' = [tx EXCEPT ![w] =
             LET t == [IdleTx EXCEPT !.req = e, !.retry = e \in abandoned]
             IN  IF ~requests[e].bodyValid THEN DoneTx(t, "error", "parse")
                 ELSE IF Len(requests[e].messages) = 0
                 THEN DoneTx(t, "ok", "")
                 ELSE [t EXCEPT !.pc = "lookup", !.msgPos = 1]]

\* IndexRequest called on any captured exchange.
IndexRequest(w, e) ==
    /\ tx[w].pc \in {"idle", "done"}
    /\ calls < MaxCalls
    /\ calls' = calls + 1
    /\ BeginIndex(w, e)
    /\ UNCHANGED <<message_content, messages, requests_context, writer,
                   rebuilds, abandoned, fin, fout, requests, run>>

FoundContentMut(w, t, id) ==
    [t EXCEPT !.pc = "insertMsg", !.messageID = id,
              !.wContent = @ \cup
                  {ContentRow(id, CurrentHash(w), CurrentMsg(w).role,
                              computeSignature(CurrentMsg(w).content),
                              normalizeMessage(CurrentMsg(w)), t.req)}]

\* Line 311, err == nil: the hash is stored, Scan leaves its id in
\* messageID and nothing is written.
FoundContent(w, t, id) == [t EXCEPT !.pc = "insertMsg", !.messageID = id]

\* Lines 295-322: parse the message, hash it and look the hash up.  The
\* first SELECT of the transaction fixes its snapshot.
LookupStmt(w) ==
    /\ tx[w].pc = "lookup"
    /\ IF CurrentMsg(w).kind = "scalar"
       THEN Abandon(w, tx[w], "error", "parse")
       ELSE LET ids == LookupID(ViewContent(w), CurrentHash(w))
                t == [tx[w] EXCEPT
                        !.snap = TRUE,
                        !.reindex = IF tx[w].snap THEN @
                                    ELSE \E r \in requests_context :
                                             r.id = tx[w].req]
            IN  /\ tx' = [tx EXCEPT ![w] =
                            IF ids # {}
                            THEN FoundContent(w, t, CHOOSE i \in ids : TRUE)
                            ELSE [t EXCEPT !.pc = "insertContent"]]
                /\ UNCHANGED <<message_content, messages, requests_context,
                               writer, calls, rebuilds, abandoned, fin, fout, requests, run>>

\* Lines 312-319: the hash is new, insert the content row.
InsertContentStmt(w) ==
    /\ tx[w].pc = "insertContent"
    /\ LET hash == CurrentHash(w)
           res == InsertContentResult(w, hash)
           id == NextRowID({r.id : r \in ViewContent(w)})
           msg == CurrentMsg(w)
       IN  IF res # "ok"
           THEN Abandon(w, [tx[w] EXCEPT !.raced = StoredElsewhere(w, hash)],
                        "error", res)
           ELSE /\ tx' = [tx EXCEPT ![w] =
                            [@ EXCEPT
                               !.pc = "insertMsg",
                               !.messageID = id,
                               !.wContent = @ \cup
                                   {ContentRow(id, hash, msg.role,
                                               computeSignature(msg.content),
                                               normalizeMessage(msg),
                                               tx[w].req)}]]
                /\ writer' = w
                /\ UNCHANGED <<message_content, messages, requests_context,
                               calls, rebuilds, abandoned, fin, fout, requests, run>>

MessageKindMut(msgPos, numMessages) == 0

\* Lines 325-328: kind 0 = context, 1 = last message.
MessageKind(msgPos, numMessages) ==
    IF msgPos = numMessages - 1 THEN 1 ELSE 0

\* Lines 324-337: record the message's position, kind 1 for the last one.
InsertMsgStmt(w) ==
    /\ tx[w].pc = "insertMsg"
    /\ LET t == tx[w]
           n == Len(requests[t.req].messages)
           res == InsertMsgResult(w, t.req, t.msgPos - 1)
           row == [rowid |-> NextRowID({r.rowid : r \in ViewMessages(w)}),
                   id |-> t.req,
                   message_position |-> t.msgPos - 1,
                   timestamp |-> requests[t.req].timestamp,
                   message_hash |-> CurrentHash(w),
                   message_id |-> t.messageID,
                   kind |-> MessageKind(t.msgPos - 1, n)]
       IN  IF res # "ok"
           THEN Abandon(w, t, "error", res)
           ELSE /\ tx' = [tx EXCEPT ![w] =
                            [@ EXCEPT
                               !.wMessages = @ \cup {row},
                               !.lastMessageID = t.messageID,
                               !.contextIDs = Append(@, FormatInt(t.messageID)),
                               !.msgPos = IF t.msgPos = n THEN @ ELSE @ + 1,
                               !.pc = IF t.msgPos = n THEN "response"
                                      ELSE "lookup"]]
                /\ writer' = w
                /\ UNCHANGED <<message_content, messages, requests_context,
                               calls, rebuilds, abandoned, fin, fout, requests, run>>

\* Lines 348-396: intern the response message when there is one; a failed
\* insert leaves responseMessageID nil.
InternResponse(w) ==
    /\ tx[w].pc = "response"
    /\ LET r == ResponseMessage(requests[tx[w].req].response) IN
       IF r.panic THEN Abandon(w, tx[w], "panic", "")
       ELSE IF ~IsSome(r.msg)
       THEN /\ tx' = [tx EXCEPT ![w].pc = "insertCtx"]
            /\ UNCHANGED <<message_content, messages, requests_context,
                           writer, calls, rebuilds, abandoned, fin, fout, requests, run>>
       ELSE LET msg == Get(r.msg)
                normalizedResp == normalizeMessage(msg)
                respHash == sha256Hash(normalizedResp)
                ids == LookupID(ViewContent(w), respHash)
                res == InsertContentResult(w, respHash)
                id == NextRowID({x.id : x \in ViewContent(w)})
            IN  /\ tx' = [tx EXCEPT ![w] =
                            IF ids # {}
                            THEN [@ EXCEPT
                                    !.pc = "insertCtx",
                                    !.responseMessageID =
                                        Some(CHOOSE i \in ids : TRUE)]
                            ELSE IF res = "ok"
                            THEN [@ EXCEPT
                                    !.pc = "insertCtx",
                                    !.responseMessageID = Some(id),
                                    !.wContent = @ \cup
                                        {ContentRow(id, respHash, msg.role,
                                             computeSignature(msg.content),
                                             normalizedResp, tx[w].req)}]
                            ELSE [@ EXCEPT !.pc = "insertCtx"]]
                /\ UNCHANGED <<message_content, messages, requests_context,
                               writer, calls, rebuilds, abandoned, fin, fout, requests, run>>

ContextFieldsMut(contextIDs) ==
    [context |-> Join(contextIDs, ","),
     contextMsgCount |-> Len(contextIDs),
     newContext |-> Join(contextIDs, ",")]

\* Lines 339-346: context excludes the last message, new_context has it.
ContextFields(contextIDs) ==
    [context |-> IF Len(contextIDs) > 1
                 THEN Join(SubSeq(contextIDs, 1, Len(contextIDs) - 1), ",")
                 ELSE "",
     contextMsgCount |-> IF Len(contextIDs) > 1 THEN Len(contextIDs) - 1
                         ELSE 0,
     newContext |-> Join(contextIDs, ",")]

\* Lines 398-404: INSERT INTO requests_context.
InsertRequestsContext(w) ==
    /\ tx[w].pc = "insertCtx"
    /\ LET t == tx[w]
           c == ContextFields(t.contextIDs)
           meta == extractResponseMetadata(requests[t.req].response)
           res == InsertCtxResult(w, t.req)
           row == [rowid |-> NextRowID({r.rowid : r \in ViewCtx(w)}),
                   id |-> t.req,
                   timestamp |-> requests[t.req].timestamp,
                   last_message_id |-> t.lastMessageID,
                   context |-> c.context,
                   new_context |-> c.newContext,
                   context_msg_count |-> c.contextMsgCount,
                   status_code |-> meta.statusCode,
                   streaming |-> meta.streaming,
                   stop_reason |-> meta.stopReason,
                   response_id |-> meta.responseID,
                   response_role |-> meta.responseRole,
                   response_signature |-> meta.responseSignature,
                   response_message_id |-> t.responseMessageID]
       IN  IF res # "ok"
           THEN Abandon(w, t, "error", res)
           ELSE /\ tx' = [tx EXCEPT ![w] =
                            [@ EXCEPT !.wCtx = @ \cup {row}, !.pc = "commit"]]
                /\ writer' = w
                /\ UNCHANGED <<message_content, messages, requests_context,
                               calls, rebuilds, abandoned, fin, fout, requests, run>>

\* Line 406: tx.Commit() publishes every row of the call at once; a
\* transaction that read before this commit can no longer start writing.
Commit(w) ==
    /\ tx[w].pc = "commit"
    /\ message_content' = message_content \cup tx[w].wContent
    /\ messages' = messages \cup tx[w].wMessages
    /\ requests_context' = requests_context \cup tx[w].wCtx
    /\ writer' = "none"
    /\ tx' = [u \in Workers |->
                IF u = w THEN DoneTx(tx[w], "ok", "")
                ELSE IF tx[u].snap THEN [tx[u] EXCEPT !.stale = TRUE]
                ELSE tx[u]]
    /\ UNCHANGED <<calls, rebuilds, abandoned, fin, fout, requests, run>>

\* The call is cut short (the process is stopped): line 263 and SQLite's
\* journal discard the open transaction.
Rollback(w) ==
    /\ InTx(w)
    /\ Abandon(w, tx[w], "interrupted", "")

CreateTablesMut ==
    /\ rebuilds < MaxRebuilds
    /\ writer = "none"
    /\ rebuilds' = rebuilds + 1
    /\ message_content' = {}
    /\ messages' = {}
    /\ tx' = [u \in Workers |->
                IF tx[u].snap THEN [tx[u] EXCEPT !.stale = TRUE] ELSE tx[u]]
    /\ UNCHANGED <<requests_context, writer, calls, abandoned, fin, fout,
                   requests, run>>

\* CreateTables(recreate = true), lines 124-137: drop the three tables.
CreateTables ==
    /\ rebuilds < MaxRebuilds
    /\ writer = "none"
    /\ rebuilds' = rebuilds + 1
    /\ message_content' = {}
    /\ messages' = {}
    /\ requests_context' = {}
    /\ tx' = [u \in Workers |->
                IF tx[u].snap THEN [tx[u] EXCEPT !.stale = TRUE] ELSE tx[u]]
    /\ UNCHANGED <<writer, calls, abandoned, fin, fout, requests, run>>

Init ==
    /\ message_content = {}
    /\ messages = {}
    /\ requests_context = {}
    /\ writer = "none"
    /\ tx = [w \in Workers |-> IdleTx]
    /\ calls = 0
    /\ rebuilds = 0
    /\ abandoned = {}
    /\ fin = <<>>
    /\ fout = None
    /\ requests = Requests
    /\ run = IdleRun

Next ==
    \/ \E w \in Workers, e \in ExchangeIds : IndexRequest(w, e)
    \/ \E w \in Workers : LookupStmt(w)
    \/ \E w \in Workers : InsertContentStmt(w)
    \/ \E w \in Workers : InsertMsgStmt(w)
    \/ \E w \in Workers : InternResponse(w)
    \/ \E w \in Workers : InsertRequestsContext(w)
    \/ \E w \in Workers : Commit(w)
    \/ \E w \in Workers : Rollback(w)
    \/ CreateTables

Spec == Init /\ [][Next]_vars

\* ------------------------------------------- the reconciler on one reply

\* The blocks an assistant reply is made of.
BlockChoices ==
    {TextBlock(""), TextBlock("ab"), ThinkingBlock("t"),
     ToolUseBlock("toolu_1", "Read", JsonValue("{}")),
     ToolUseBlock("toolu_2", "Edit", JsonValue("{\"p\":1}"))}

TextDelta(i, t) ==
    Event("content_block_delta", Some(i), None,
          Some(Delta("text_delta", Some(t), None, None, None)))

ThinkingDelta(i, t) ==
    Event("content_block_delta", Some(i), None,
          Some(Delta("thinking_delta", None, Some(t), None, None)))

InputJsonDelta(i, t) ==
    Event("content_block_delta", Some(i), None,
          Some(Delta("input_json_delta", None, None, Some(t), None)))

BlockStart(i, b) == Event("content_block_start", Some(i), Some(b), None)

BlockStop(i) == Event("content_block_stop", Some(i), None, None)

\* The streamed event sequences that carry block b at index i: the start
\* event with the block's type, id and name (text and thinking start empty
\* or with an initial value, a tool_use starts with input {}), the deltas
\* whose concatenation is the value, and the stop event.  A tool input is
\* sent as partial_json fragments; the empty object is sent as one empty
\* fragment or as the text {}.
Encodings(i, b) ==
    IF b.type = "text"
    THEN LET t == Get(b.text) IN
         {<<BlockStart(i, TextBlock("")), TextDelta(i, t), BlockStop(i)>>,
          <<BlockStart(i, TextBlock(t)), BlockStop(i)>>}
         \cup (IF t = "ab"
               THEN {<<BlockStart(i, TextBlock("")), TextDelta(i, "a"),
                       TextDelta(i, "b"), BlockStop(i)>>,
                     <<BlockStart(i, TextBlock("a")), TextDelta(i, "b"),
                       BlockStop(i)>>}
               ELSE {})
    ELSE IF b.type = "thinking"
    THEN {<<BlockStart(i, ThinkingBlock("")),
            ThinkingDelta(i, Get(b.thinking)), BlockStop(i)>>}
    ELSE LET start == BlockStart(i, [b EXCEPT !.input = Some(JsonValue("{}"))])
             json == Get(b.input).v
         IN  IF json = "{}"
             THEN {<<start, InputJsonDelta(i, ""), BlockStop(i)>>,
                   <<start, InputJsonDelta(i, "{}"), BlockStop(i)>>}
             ELSE {<<start, InputJsonDelta(i, json), BlockStop(i)>>,
                   <<start, InputJsonDelta(i, ""), InputJsonDelta(i, "{\"p\""),
                     InputJsonDelta(i, ":1}"), BlockStop(i)>>}

RECURSIVE BlockEvents(_, _)
\* The event sequences for blocks[k..], in index order.
BlockEvents(blocks, k) ==
    IF k > Len(blocks) THEN {<<>>}
    ELSE {h \o r : h \in Encodings(k - 1, blocks[k]),
                   r \in BlockEvents(blocks, k + 1)}

\* The streamingChunks of a streamed response with these blocks.
StreamsOf(blocks) ==
    {<<Event("message_start", None, None, None)>> \o evs \o
     <<Event("message_delta", None, None,
             Some(Delta("", None, None, None, Some("end_turn"))))>> :
        evs \in BlockEvents(blocks, 1)}

\* The buffered response with these blocks.
BufferedOf(blocks) ==
    Response(200, FALSE,
             Some(Body("assistant", ArrayContent(blocks), "end_turn", "msg_1")),
             <<>>)

\* The content hash IndexRequest (lines 372-380) interns the response under.
ResponseHash(response) ==
    LET r == ResponseMessage(response) IN
    IF r.panic \/ ~IsSome(r.msg) THEN None
    ELSE Some(sha256Hash(normalizeMessage(Get(r.msg))))

\* Reconcile the reply once from its buffered body and once from one of
\* its streamed forms.
Reconcile ==
    /\ fout = None
    /\ Len(fin) > 0
    /\ \E chunks \in StreamsOf(fin) :
          fout' = Some([chunks |-> chunks,
                        buffered |-> ResponseHash(BufferedOf(fin)),
                        streamed |-> ResponseHash(
                            Response(200, TRUE, None, chunks))])
    /\ UNCHANGED <<dbvars, fin, requests, run>>

InitRecon ==
    /\ message_content = {}
    /\ messages = {}
    /\ requests_context = {}
    /\ writer = "none"
    /\ tx = [w \in Workers |-> IdleTx]
    /\ calls = 0
    /\ rebuilds = 0
    /\ abandoned = {}
    /\ fin \in UNION {[1..n -> BlockChoices] : n \in 1..MaxBlocks}
    /\ fout = None
    /\ requests = Requests
    /\ run = IdleRun

SpecRecon == InitRecon /\ [][Reconcile]_vars

\* ------------------------------------- indexing under any response value

MessageStart == Event("message_start", None, None, None)

MessageStop(reason) ==
    Event("message_delta", None, None,
          Some(Delta("", None, None, None, Some(reason))))

\* The values column response of a captured exchange can hold: NULL, text
\* that is no JSON, no body, a body that is no object, bodies with empty
\* role or without content, complete bodies and streams, and chunk lists
\* that are garbage, start no block, stop early, skip an index or carry a
\* negative index, and responses that carry a body next to chunks, the
\* body empty, without stop reason, without content or without role, and
\* streams of two blocks started in and out of index order.
ResponseVariants ==
    {NoResponse,
     [NoResponse EXCEPT !.present = TRUE],
     Response(200, FALSE, None, <<>>),
     Response(200, FALSE,
              Some([Body("", NullContent, "", "") EXCEPT !.valid = FALSE]),
              <<>>),
     Response(200, FALSE,
              Some(Body("", ArrayContent(<<TextBlock("b")>>), "end_turn", "m")),
              <<>>),
     Response(200, FALSE, Some(Body("assistant", NullContent, "", "m")), <<>>),
     Response(200, FALSE, Some(Body("assistant", AbsentContent, "", "m")), <<>>),
     Response(500, FALSE,
              Some(Body("assistant", ArrayContent(<<>>), "", "")), <<>>),
     BufferedB,
     StreamedD,
     Response(200, TRUE, None, <<GarbageChunk>>),
     Response(200, TRUE, None, <<MessageStart, MessageStop("end_turn")>>),
     Response(200, TRUE, None,
              <<MessageStart,
                Event("content_block_start", Some(0), Some(TextBlock("")), None),
                Event("content_block_delta", Some(0), None,
                      Some(Delta("text_delta", Some("d"), None, None, None)))>>),
     Response(200, TRUE, None,
              <<MessageStart,
                Event("content_block_delta", Some(0), None,
                      Some(Delta("text_delta", Some("d"), None, None, None))),
                MessageStop("end_turn")>>),
     Response(200, TRUE, None,
              <<MessageStart,
                Event("content_block_start", Some(1), Some(TextBlock("d")), None),
                MessageStop("end_turn")>>),
     Response(200, TRUE, None,
              <<MessageStart,
                Event("content_block_start", None, None, None),
                MessageStop("end_turn")>>),
     Response(200, TRUE, None,
              <<MessageStart,
                Event("content_block_start", Some(-1), Some(TextBlock("d")),
                      None),
                MessageStop("end_turn")>>),
     Response(200, TRUE,
              Some(Body("assistant", ArrayContent(<<>>), "", "m")),
              <<MessageStart,
                Event("content_block_start", Some(0),
                      Some(ToolUseBlock("toolu_1", "Read", JsonValue("{}"))),
                      None),
                MessageStop("tool_use")>>),
     Response(200, TRUE,
              Some(Body("assistant", ArrayContent(<<TextBlock("b")>>), "", "m")),
              <<MessageStart,
                Event("content_block_start", Some(0),
                      Some(ToolUseBlock("toolu_1", "Read", JsonValue("{}"))),
                      None),
                MessageStop("tool_use")>>),
     Response(200, TRUE,
              Some(Body("assistant", ArrayContent(<<>>), "max_tokens", "m")),
              <<MessageStart,
                Event("content_block_start", Some(0), Some(TextBlock("d")), None),
                MessageStop("end_turn")>>),
     Response(200, TRUE, None,
              <<MessageStart,
                Event("content_block_start", Some(1),
                      Some(ToolUseBlock("toolu_1", "Read", JsonValue("{}"))),
                      None),
                Event("content_block_start", Some(0), Some(TextBlock("d")), None),
                MessageStop("tool_use")>>),
     Response(200, TRUE, None,
              <<MessageStart,
                Event("content_block_start", Some(0), Some(TextBlock("d")), None),
                Event("content_block_start", Some(1),
                      Some(ToolUseBlock("toolu_1", "Read", JsonValue("{}"))),
                      None),
                Event("content_block_delta", Some(1), None,
                      Some(Delta("input_json_delta", None, None, Some("{}"),
                                 None))),
                MessageStop("tool_use")>>),
     Response(200, TRUE,
              Some(Body("", ArrayContent(<<TextBlock("b")>>), "end_turn", "m")),
              <<MessageStart,
                Event("content_block_start", Some(0),
                      Some(ToolUseBlock("toolu_1", "Read", JsonValue("{}"))),
                      None),
                MessageStop("tool_use")>>),
     Response(200, TRUE, None,
              <<MessageStart, TextDelta(-1, "d"), MessageStop("end_turn")>>),
     Response(200, TRUE, None,
              <<MessageStart,
                Event("content_block_start", None, Some(TextBlock("")), None),
                Event("content_block_delta", None, None,
                      Some(Delta("text_delta", Some("d"), None, None, None))),
                TextDelta(1, "e"),
                MessageStop("end_turn")>>)}

\* The first exchange was captured with any of these responses.
InitResp ==
    /\ message_content = {}
    /\ messages = {}
    /\ requests_context = {}
    /\ writer = "none"
    /\ tx = [w \in Workers |-> IdleTx]
    /\ calls = 0
    /\ rebuilds = 0
    /\ abandoned = {}
    /\ fin = <<>>
    /\ fout = None
    /\ \E v \in ResponseVariants :
          requests = [Requests EXCEPT !["e1"].response = v]
    /\ run = IdleRun

\* One process indexes exchanges one call after the other.
NextResp ==
    \/ \E e \in ExchangeIds : IndexRequest("w1", e)
    \/ LookupStmt("w1")
    \/ InsertContentStmt("w1")
    \/ InsertMsgStmt("w1")
    \/ InternResponse("w1")
    \/ InsertRequestsContext("w1")
    \/ Commit("w1")

SpecResp == InitResp /\ [][NextResp]_vars

\* ------------------------------------------------- the batch run

Range(f) == {f[i] : i \in DOMAIN f}

\* ORDER BY timestamp over a set of rows of table requests: every order
\* SQLite may return, rows of equal timestamp in any order.
OrderByTimestamp(ids) ==
    {q \in [1..Cardinality(ids) -> ids] :
        /\ Range(q) = ids
        /\ \A i, j \in DOMAIN q :
              i < j => requests[q[i]].timestamp <= requests[q[j]].timestamp}

fetchAllRequestIDsMut == [1..Cardinality(ExchangeIds) -> ExchangeIds]

\* fetchAllRequestIDs: SELECT id, timestamp FROM requests ORDER BY timestamp
fetchAllRequestIDs == OrderByTimestamp(ExchangeIds)

fetchNewRequestIDsMut ==
    OrderByTimestamp({e \in ExchangeIds :
                        \A c \in requests_context : c.id # e})

\* fetchNewRequestIDs: everything when nothing is indexed, else the rows
\* not in requests_context from the lookback before MAX(timestamp) on.
fetchNewRequestIDs ==
    IF requests_context = {} THEN fetchAllRequestIDs
    ELSE LET maxTimestamp == Max({c.timestamp : c \in requests_context})
         IN  OrderByTimestamp(
                 {e \in ExchangeIds :
                    /\ requests[e].timestamp >= maxTimestamp - Lookback
                    /\ e \notin {c.id : c \in requests_context}})

\* checkTablesExist: the index tables exist once a run has created them.
checkTablesExist == run.runs > 0

\* RunIndexMessages lines 59-87: create or rebuild the tables, select the
\* exchanges to index; runs is the number of runs started with this one.
SelectRun(recreate, continueOnError, runs) ==
    /\ run.pc \in {"idle", "done"}
    /\ writer = "none"
    /\ LET forceRecreate == recreate \/ ~checkTablesExist IN
       /\ message_content' = IF forceRecreate THEN {} ELSE message_content
       /\ messages' = IF forceRecreate THEN {} ELSE messages
       /\ requests_context' = IF forceRecreate THEN {} ELSE requests_context
       /\ \E q \in IF forceRecreate THEN fetchAllRequestIDs
                   ELSE fetchNewRequestIDs :
             run' = [IdleRun EXCEPT
                       !.pc = IF Len(q) = 0 THEN "done" ELSE "loop",
                       !.runs = runs,
                       !.forceRecreate = forceRecreate,
                       !.continueOnError = continueOnError,
                       !.requests = q,
                       !.queue = q,
                       !.result = IF Len(q) = 0 THEN "ok" ELSE ""]
    /\ UNCHANGED <<writer, tx, calls, rebuilds, abandoned, fin, fout,
                   requests>>

\* One of the first MaxRuns runs of index-messages.
StartRun(recreate, continueOnError) ==
    /\ run.runs < MaxRuns
    /\ SelectRun(recreate, continueOnError, run.runs + 1)

\* A further run of index-messages with no option given (incremental,
\* halting at the first error); the run count stays at MaxRuns.
RepeatRun ==
    /\ run.runs = MaxRuns
    /\ SelectRun(FALSE, FALSE, MaxRuns)

\* Lines 89-105: fetch the next exchange and call IndexRequest on it.
RunCall ==
    /\ run.pc = "loop"
    /\ BeginIndex("w1", Head(run.queue))
    /\ run' = [run EXCEPT !.pc = "call",
                          !.attempted = Append(@, Head(run.queue))]
    /\ UNCHANGED <<message_content, messages, requests_context, writer,
                   calls, rebuilds, abandoned, fin, fout, requests>>

TallyMut(r, ok) ==
    IF ok THEN [r EXCEPT !.successCount = @ + 1]
    ELSE IF r.continueOnError THEN [r EXCEPT !.errorCount = @ + 1]
    ELSE r

\* successCount++ / errorCount++
Tally(r, ok) ==
    IF ok THEN [r EXCEPT !.successCount = @ + 1]
    ELSE [r EXCEPT !.errorCount = @ + 1]

\* Lines 106-125: count the outcome; stop at the first error unless
\* --continue-on-error; a runtime panic ends the process without a report.
RunReturn ==
    /\ run.pc = "call"
    /\ tx["w1"].pc = "done"
    /\ LET ok == tx["w1"].result = "ok"
           r == [Tally(run, ok) EXCEPT
                    !.outcomes = Append(@, IF ok THEN "ok" ELSE "error"),
                    !.queue = Tail(@)]
       IN  run' = IF tx["w1"].result = "panic"
                  THEN [run EXCEPT !.pc = "crashed"]
                  ELSE IF ~ok /\ ~run.continueOnError
                  THEN [r EXCEPT !.pc = "done", !.result = "error"]
                  ELSE IF Len(r.queue) = 0
                  THEN [r EXCEPT !.pc = "done", !.result = "ok"]
                  ELSE [r EXCEPT !.pc = "loop"]
    /\ tx' = [tx EXCEPT !["w1"] = IdleTx]
    /\ UNCHANGED <<message_content, messages, requests_context, writer,
                   calls, rebuilds, abandoned, fin, fout, requests>>

\* UpdateRequestWithResponse: the proxy stores the response of a captured
\* exchange once the upstream call has completed.
UpdateRequestWithResponse(e) ==
    /\ ~requests[e].response.present
    /\ Requests[e].response.present
    /\ requests' = [requests EXCEPT ![e].response = Requests[e].response]
    /\ UNCHANGED <<dbvars, fin, fout, run>>

\* Capture times of the exchanges, in minutes: the order of capture, and
\* one with the unparseable body first, two exchanges of the same minute
\* and a gap longer than the lookback.
TimestampChoices ==
    {[e \in ExchangeIds |-> Requests[e].timestamp],
     [e \in ExchangeIds |->
        CASE e = "e4" -> 0
          [] e = "e1" -> 5
          [] e = "e3" -> 5
          [] e = "e5" -> 20
          [] OTHER -> 30]}

\* A database that was never indexed; the responses of the exchanges that
\* have one may still be outstanding.
InitRun ==
    /\ message_content = {}
    /\ messages = {}
    /\ requests_context = {}
    /\ writer = "none"
    /\ tx = [w \in Workers |-> IdleTx]
    /\ calls = 0
    /\ rebuilds = 0
    /\ abandoned = {}
    /\ fin = <<>>
    /\ fout = None
    /\ \E ts \in TimestampChoices, pending \in SUBSET {"e1", "e2"} :
          requests = [e \in ExchangeIds |->
                        [Requests[e] EXCEPT
                           !.timestamp = ts[e],
                           !.response = IF e \in pending THEN NoResponse
                                        ELSE @]]
    /\ run = IdleRun

NextRun ==
    \/ \E recreate, continueOnError \in BOOLEAN :
          StartRun(recreate, continueOnError)
    \/ RunCall
    \/ LookupStmt("w1")
    \/ InsertContentStmt("w1")
    \/ InsertMsgStmt("w1")
    \/ InternResponse("w1")
    \/ InsertRequestsContext("w1")
    \/ Commit("w1")
    \/ RunReturn
    \/ \E e \in ExchangeIds : UpdateRequestWithResponse(e)

SpecRun == InitRun /\ [][NextRun]_vars

\* index-messages is run again and again with no option given; every run
\* goes on to its end.
NextRepeat ==
    \/ StartRun(FALSE, FALSE)
    \/ RepeatRun
    \/ RunCall
    \/ LookupStmt("w1")
    \/ InsertContentStmt("w1")
    \/ InsertMsgStmt("w1")
    \/ InternResponse("w1")
    \/ InsertRequestsContext("w1")
    \/ Commit("w1")
    \/ RunReturn
    \/ \E e \in ExchangeIds : UpdateRequestWithResponse(e)

RunSteps ==
    \/ StartRun(FALSE, FALSE)
    \/ RepeatRun
    \/ RunCall
    \/ LookupStmt("w1")
    \/ InsertContentStmt("w1")
    \/ InsertMsgStmt("w1")
    \/ InternResponse("w1")
    \/ InsertRequestsContext("w1")
    \/ Commit("w1")
    \/ RunReturn

SpecRepeat == InitRun /\ [][NextRepeat]_vars /\ WF_vars(RunSteps)

\* ------------------------------------------------- find-conversations

RECURSIVE SplitFrom(_, _, _, _)
\* strings.Split(s, sep) for a one-character sep, reading s from the left
\* with the part in progress and the parts completed.
SplitFrom(s, sep, part, parts) ==
    IF s = "" THEN Append(parts, part)
    ELSE IF Head(s) = sep THEN SplitFrom(Tail(s), sep, "", Append(parts, part))
    ELSE SplitFrom(Tail(s), sep, part \o Head(s), parts)

Split(s, sep) == SplitFrom(s, sep, "", <<>>)

computeContextPrefixMut(context) ==
    LET parts == Split(context, ",")
    IN  Join(SubSeq(parts, 1, Len(parts) - 1), ",")

\* computeContextPrefix: pop 2 if len >= 4, otherwise 1 if len >= 2
computeContextPrefix(context) ==
    IF context = "" THEN ""
    ELSE LET parts == Split(context, ",")
             popCount == IF Len(parts) >= 4 THEN 2
                         ELSE IF Len(parts) >= 2 THEN 1
                         ELSE 0
         IN  IF popCount > 0 /\ Len(parts) > popCount
             THEN Join(SubSeq(parts, 1, Len(parts) - popCount), ",")
             ELSE Join(parts, ",")

\* context LIKE pattern for a pattern "<lead>%" whose lead holds no
\* wildcard: the context starts with lead.
LikeLead(context, lead) ==
    /\ Len(context) >= Len(lead)
    /\ SubSeq(context, 1, Len(lead)) = lead

\* FindConversationsByPrefix: WHERE rc.context LIKE prefix || ',%' OR
\* rc.context = prefix ORDER BY rc.timestamp ASC; every order SQLite may
\* return for rows of equal timestamp.
FindConversationsByPrefix(prefix) ==
    LET hits == {c \in requests_context :
                    \/ LikeLead(c.context, prefix \o ",")
                    \/ c.context = prefix}
    IN  {q \in [1..Cardinality(hits) -> hits] :
            /\ Range(q) = hits
            /\ \A i, j \in DOMAIN q :
                  i < j => q[i].timestamp <= q[j].timestamp}

\* RunFindConversations lines 57-75 for --id e.
RunFindConversations(e) ==
    /\ fout = None
    /\ \E c \in requests_context :
          /\ c.id = e
          /\ LET prefix == computeContextPrefix(c.context) IN
             \E results \in FindConversationsByPrefix(prefix) :
                fout' = Some([id |-> e, context |-> c.context,
                              prefix |-> prefix, results |-> results])
    /\ UNCHANGED <<dbvars, fin, requests, run>>

\* The context id lists of the indexed exchanges searched: of length 0 to
\* 5, with ids of one and of two digits that share leading digits.
ContextChoices ==
    {<<>>, <<1>>, <<12>>, <<1, 2>>, <<1, 23>>, <<1, 2, 3>>, <<12, 3, 4>>,
     <<1, 2, 3, 4>>, <<1, 2, 3, 4, 5>>}

FoundIds == {"e1", "e2", "e3"}

\* The requests_context row IndexRequest commits for an exchange whose
\* messages were interned under ids followed by last.
ContextRow(e, ids, last) ==
    LET c == ContextFields([i \in 1..(Len(ids) + 1) |->
                              IF i <= Len(ids) THEN FormatInt(ids[i])
                              ELSE FormatInt(last)])
    IN  [rowid |-> IF e = "e1" THEN 1 ELSE IF e = "e2" THEN 2 ELSE 3,
         id |-> e,
         timestamp |-> IF e = "e3" THEN Requests["e2"].timestamp
                       ELSE Requests[e].timestamp,
         last_message_id |-> last,
         context |-> c.context,
         new_context |-> c.newContext,
         context_msg_count |-> c.contextMsgCount,
         status_code |-> None, streaming |-> None, stop_reason |-> None,
         response_id |-> None, response_role |-> None,
         response_signature |-> None, response_message_id |-> None]

\* An index of three exchanges, the last two of the same timestamp; fin
\* keeps the id list behind each context.
InitFind ==
    /\ message_content = {}
    /\ messages = {}
    /\ fin \in [FoundIds -> ContextChoices]
    /\ requests_context = {ContextRow(e, fin[e], 99) : e \in FoundIds}
    /\ writer = "none"
    /\ tx = [w \in Workers |-> IdleTx]
    /\ calls = 0
    /\ rebuilds = 0
    /\ abandoned = {}
    /\ fout = None
    /\ requests = Requests
    /\ run = IdleRun

NextFind == \E e \in FoundIds : RunFindConversations(e)

SpecFind == InitFind /\ [][NextFind]_vars

\* ------------------------------------------------- replaying a stream

\* The content block events a stream is made of: blocks at index 0 and 1,
\* a text block starting empty or with an initial value, a tool_use or a
\* thinking block, text fragments, tool-input fragments and a thinking
\* fragment.
StreamEvents ==
    {BlockStart(0, TextBlock("")),
     BlockStart(0, TextBlock("a")),
     BlockStart(1, ToolUseBlock("toolu_1", "Read", JsonValue("{}"))),
     BlockStart(1, ThinkingBlock("")),
     TextDelta(0, "x"),
     TextDelta(0, "y"),
     InputJsonDelta(1, "{\"p\""),
     InputJsonDelta(1, ":1}"),
     ThinkingDelta(1, "t")}

\* The positions of the content_block_start events for index i.
StartedAt(chunks, i) ==
    {k \in DOMAIN chunks :
        /\ chunks[k].valid
        /\ chunks[k].type = "content_block_start"
        /\ chunks[k].index = Some(i)}

\* ev may follow q in a stream of the Messages API: a block is started
\* once, and a delta follows the start of the block it is addressed to.
\* The blocks may start in any order and their deltas may interleave.
FollowsProtocol(q, ev) ==
    IF ev.type = "content_block_start"
    THEN StartedAt(q, Get(ev.index)) = {}
    ELSE StartedAt(q, Get(ev.index)) # {}

RECURSIVE EventLists(_)
\* The event lists of n events.
EventLists(n) ==
    IF n = 0 THEN {<<>>}
    ELSE UNION {{Append(q, ev) : ev \in {x \in StreamEvents :
                                           FollowsProtocol(q, x)}} :
                   q \in EventLists(n - 1)}

\* The streamingChunks replayed.
ReplayStreams ==
    {<<MessageStart>> \o q \o <<MessageStop("end_turn")>> :
        q \in UNION {EventLists(n) : n \in 0..MaxEvents}}

\* reconstructStreamingResponse run on the chunks of one response.
ReplayStream ==
    /\ fout = None
    /\ fout' = Some([chunks |-> fin,
                     result |-> reconstructStreamingResponse(fin)])
    /\ UNCHANGED <<dbvars, fin, requests, run>>

InitReplay ==
    /\ message_content = {}
    /\ messages = {}
    /\ requests_context = {}
    /\ writer = "none"
    /\ tx = [w \in Workers |-> IdleTx]
    /\ calls = 0
    /\ rebuilds = 0
    /\ abandoned = {}
    /\ fin \in ReplayStreams
    /\ fout = None
    /\ requests = Requests
    /\ run = IdleRun

SpecReplay == InitReplay /\ [][ReplayStream]_vars

\* ------------------------------------------------------------ properties

\* The request message of exchange e at 0-based position pos.
MsgAt(e, pos) == requests[e].messages[pos + 1]

\* A message's role-independent meaning: its content as a block list
\* without transport hints, a string standing for one text block.
SemanticContent(m) ==
    IF m.content.form = "string"
    THEN [form |-> "array",
          blocks |-> <<[type |-> "text", text |-> Some(m.content.text),
                        thinking |-> None, id |-> None, name |-> None,
                        input |-> None]>>]
    ELSE [form |-> m.content.form,
          blocks |-> [i \in 1..Len(m.content.blocks) |->
                        [k \in DOMAIN m.content.blocks[i] \ {"cache_control"}
                           |-> m.content.blocks[i][k]]]]

SameMessage(m1, m2) ==
    m1.role = m2.role /\ SemanticContent(m1) = SemanticContent(m2)

\* Every (raw message, id) the committed rows record an interning of.
InternedPairs ==
    {<<MsgAt(m.id, m.message_position), m.message_id>> : m \in messages}
    \cup {<<Get(ResponseMessage(requests[c.id].response).msg),
            Get(c.response_message_id)>> :
            c \in {x \in requests_context : IsSome(x.response_message_id)}}

\* Every (content hash, id) the committed rows hold.
HashIdPairs ==
    {<<r.message_hash, r.id>> : r \in message_content}
    \cup {<<m.message_hash, m.message_id>> : m \in messages}

Functional(pairs) == \A p, q \in pairs : p[1] = q[1] => p[2] = q[2]

CtxRows(e) == {c \in requests_context : c.id = e}

\* The id recorded for position pos of exchange e, as new_context has it.
IdAt(e, pos) ==
    FormatInt((CHOOSE m \in messages :
                   m.id = e /\ m.message_position = pos).message_id)

\* C1: through every step of indexing (calls that commit, fail or are
\* interrupted) a content hash has one id, in the content table and in the
\* positions recorded for any exchange, and keeps the id it had.
C1_HashKeepsOneId == [][Functional(HashIdPairs \cup HashIdPairs')]_vars

\* C1 witness: one hash recorded for two exchanges while another call
\* has failed.
C1_Witness ==
    /\ \E m1, m2 \in messages :
          m1.id # m2.id /\ m1.message_hash = m2.message_hash
    /\ \E w \in Workers : tx[w].pc = "done" /\ tx[w].result = "error"

\* C2: messages with the same role and the same content after
\* normalization are interned under the same id.
C2_SameContentSameId ==
    \A p, q \in InternedPairs : SameMessage(p[1], q[1]) => p[2] = q[2]

\* C2 witness: a string-form message and an array-form message carrying
\* cache_control share an id.
C2_Witness ==
    \E p, q \in InternedPairs :
        /\ p[1].content.form = "string"
        /\ q[1].content.form = "array"
        /\ \E i \in 1..Len(q[1].content.blocks) :
              q[1].content.blocks[i].cache_control
        /\ p[2] = q[2]

\* C3: in every context row new_context is context with last_message_id
\* appended, context_msg_count is the number of ids in context,
\* last_message_id is the id of the final request message, and a
\* one-message request has an empty context of count 0.
C3_ContextShape ==
    \A c \in requests_context :
        LET n == Len(requests[c.id].messages)
            last == FormatInt(c.last_message_id)
        IN  /\ \E ids \in [1..c.context_msg_count ->
                             {FormatInt(r.id) : r \in message_content}] :
                  /\ c.context = Join(ids, ",")
                  /\ c.new_context = Join(Append(ids, last), ",")
            /\ \E r \in message_content :
                  /\ r.id = c.last_message_id
                  /\ r.role = MsgAt(c.id, n - 1).role
                  /\ SemanticContent(r.content)
                       = SemanticContent(MsgAt(c.id, n - 1))
            /\ c.context_msg_count = n - 1
            /\ n = 1 => c.context = "" /\ c.new_context = last

\* C3 witness: a row of a one-message request and a row with two context
\* ids are both committed.
C3_Witness ==
    /\ \E c \in requests_context : c.context_msg_count = 0
    /\ \E c \in requests_context : c.context_msg_count = 2

\* No exchange is partly indexed: content it created and positions it
\* recorded exist only together with its context row, and a context row
\* has a position row for every request message.
NoPartialIndex ==
    \A e \in ExchangeIds :
        /\ (\E m \in messages : m.id = e) => CtxRows(e) # {}
        /\ (\E r \in message_content : r.created_by = e) => CtxRows(e) # {}
        /\ CtxRows(e) # {} =>
              \A i \in 0..(Len(requests[e].messages) - 1) :
                  \E m \in messages : m.id = e /\ m.message_position = i

\* Every message of the request parses as a message object.
WellFormed(e) ==
    /\ requests[e].bodyValid
    /\ \A i \in 1..Len(requests[e].messages) :
          requests[e].messages[i].kind # "scalar"

C5_OneRowPerExchange ==
    \A c1, c2 \in requests_context : c1.id = c2.id => c1 = c2

\* C5 witness: an indexed exchange was indexed again after a rebuild, and a
\* call on an exchange that already had its row has returned.
C5_Witness ==
    /\ rebuilds > 0
    /\ \E w \in Workers :
          /\ tx[w].pc = "done" /\ tx[w].reindex
          /\ Cardinality(CtxRows(tx[w].req)) = 1

\* C6 as stated: a call on an exchange that already has its context row,
\* run to its end without losing the write lock, succeeds.
C6_ReindexSucceeds ==
    \A w \in Workers :
        (tx[w].pc = "done" /\ tx[w].reindex /\ tx[w].result # "interrupted"
           /\ tx[w].err # "busy")
        => tx[w].result = "ok"

\* C7 as stated: the buffered body and every streamed form of the same
\* blocks are interned under the same content hash.
C7_SameHash ==
    IsSome(fout) =>
        /\ IsSome(Get(fout).buffered)
        /\ Get(fout).buffered = Get(fout).streamed

\* A's request messages are the first messages of B's longer request.
StartsWith(b, a) ==
    /\ Len(requests[a].messages) < Len(requests[b].messages)
    /\ WellFormed(a)
    /\ WellFormed(b)
    /\ \A i \in 1..Len(requests[a].messages) :
          SameMessage(requests[a].messages[i], requests[b].messages[i])

\* In the committed rows, B's new_context is A's new_context followed by
\* the ids of B's further messages.
PrefixShared ==
    \A a, b \in requests_context :
        StartsWith(b.id, a.id) =>
            b.new_context =
                a.new_context \o "," \o
                Join([i \in 1..(Len(requests[b.id].messages)
                                  - Len(requests[a.id].messages)) |->
                         IdAt(b.id, Len(requests[a.id].messages) + i - 1)],
                     ",")

\* C8: when B extends the indexed exchange A, B's new_context starts with
\* A's new_context, and the commit of B adds content rows only under
\* hashes and ids that were not stored, none of them for A's messages.
C8_PrefixDedup ==
    [][/\ PrefixShared'
       /\ \A b \in requests_context' \ requests_context :
             \A r \in message_content' \ message_content :
                /\ r.message_hash \notin
                      {x.message_hash : x \in message_content}
                /\ r.id \notin {x.id : x \in message_content}
                /\ \A a \in requests_context :
                      StartsWith(b.id, a.id) =>
                          \A i \in 1..Len(requests[a.id].messages) :
                              ~SameMessage(r.content,
                                           requests[a.id].messages[i])]_vars

\* C8 witness: an exchange and a longer one that starts with its messages
\* are both indexed, the longer one having stored new content.
C8_Witness ==
    \E a, b \in requests_context :
        /\ StartsWith(b.id, a.id)
        /\ \E r \in message_content : r.created_by = b.id
        /\ \E r \in message_content : r.created_by = a.id

\* C9: the committed content table holds at most one row per hash.
C9_OneRowPerHash ==
    \A r1, r2 \in message_content :
        r1.message_hash = r2.message_hash => r1 = r2

\* C9 witness: a call lost the race to insert a hash that another
\* exchange's call has committed.
C9_Witness ==
    \E w \in Workers :
        /\ tx[w].pc = "done" /\ tx[w].raced
        /\ \E r \in message_content :
              /\ r.created_by # tx[w].req
              /\ \E i \in 1..Len(requests[tx[w].req].messages) :
                    SameMessage(r.content, requests[tx[w].req].messages[i])

\* C10 as stated: the call whose insert of a new hash met a concurrent
\* call's insert of the same hash returns no error.
C10_LoserContinues ==
    \A w \in Workers :
        (tx[w].pc = "done" /\ tx[w].raced) => tx[w].result = "ok"

\* The committed index tables.
Tables == <<message_content, messages, requests_context>>

\* The rows a call on exchange e writes: positions and context row under
\* its id, content under its created_by.
RowsOf(e) ==
    <<{r \in message_content : r.created_by = e},
      {m \in messages : m.id = e},
      CtxRows(e)>>

NoRows == <<{}, {}, {}>>

\* Worker w's call returns in this step.
Returns(w) == tx'[w].pc = "done" /\ tx'[w] # tx[w]

EmptyRequest(e) == requests[e].bodyValid /\ Len(requests[e].messages) = 0

\* C20: a call on a request without messages returns success at once, its
\* step changes no committed table, and the exchange never has a row.
C20_EmptyRequestNoop ==
    [][/\ \A w \in Workers :
             (calls' # calls /\ tx'[w] # tx[w] /\ EmptyRequest(tx'[w].req))
             => Tables' = Tables
       /\ \A w \in Workers :
             (tx'[w].pc # "idle" /\ EmptyRequest(tx'[w].req))
             => tx'[w].pc = "done" /\ tx'[w].result = "ok"
       /\ \A e \in ExchangeIds : EmptyRequest(e) => RowsOf(e)' = NoRows]_vars

\* C20 witness: a call on a request without messages has returned while
\* rows of another exchange are committed.
C20_Witness ==
    /\ requests_context # {}
    /\ \E w \in Workers :
          /\ tx[w].pc = "done" /\ tx[w].result = "ok"
          /\ EmptyRequest(tx[w].req)

\* The call ran a well-formed, non-empty request not indexed before.
FreshCall(w) ==
    /\ tx[w].pc = "done"
    /\ WellFormed(tx[w].req)
    /\ ~EmptyRequest(tx[w].req)
    /\ ~tx[w].reindex

\* C12 as stated: whatever the response column holds, a call on a
\* well-formed, non-empty request commits the exchange's context row.
C12_ResponseNeverAborts ==
    \A w \in Workers :
        FreshCall(w) => tx[w].result = "ok" /\ CtxRows(tx[w].req) # {}

\* A stream starts a block when a content_block_start chunk carries one.
StartsBlock(chunks) ==
    \E i \in 1..Len(chunks) :
        /\ chunks[i].valid
        /\ chunks[i].type = "content_block_start"
        /\ IsSome(chunks[i].content_block)

\* The buffered body names a role and holds content.
BodyHasMessage(response) ==
    /\ IsSome(response.body)
    /\ Get(response.body).valid
    /\ Get(response.body).role # ""
    /\ \/ Get(response.body).content.form = "string"
       \/ /\ Get(response.body).content.form = "array"
          /\ Len(Get(response.body).content.blocks) > 0

\* The response yields an assistant message with at least one block.
YieldsMessage(response) ==
    /\ response.present
    /\ response.valid
    /\ BodyHasMessage(response) \/ StartsBlock(response.streamingChunks)

\* C13 as stated: a context row refers to a response message, and a
\* content row was created for it, only if the response yields a message
\* with a role and at least one content block.
C13_InternedOnlyWithContent ==
    /\ \A c \in requests_context :
          IsSome(c.response_message_id) => YieldsMessage(requests[c.id].response)
    /\ \A r \in message_content :
          r.content.content.form = "array"
          /\ Len(r.content.content.blocks) > 0

\* This step starts a batch run (selects the exchanges to index).
Selects == run'.runs # run.runs

\* The latest timestamp among the indexed exchanges.
LatestIndexed ==
    CHOOSE t \in {c.timestamp : c \in requests_context} :
        \A c \in requests_context : c.timestamp <= t

NoRepeat(q) == \A i, j \in DOMAIN q : q[i] = q[j] => i = j

NonDecreasing(q) ==
    \A i \in DOMAIN q : \A j \in DOMAIN q :
        i < j => requests[q[i]].timestamp <= requests[q[j]].timestamp

\* C14: an incremental selection over a non-empty index returns exactly
\* the captured exchanges without a context row whose timestamp is not
\* earlier than the lookback before the latest indexed timestamp, each
\* once, and none that has a context row.
C14_IncrementalSelection ==
    [][(Selects /\ ~run'.forceRecreate /\ requests_context # {}) =>
          /\ Range(run'.requests) =
                {e \in ExchangeIds :
                    /\ CtxRows(e) = {}
                    /\ requests[e].timestamp >= LatestIndexed - Lookback}
          /\ NoRepeat(run'.requests)
          /\ \A e \in Range(run'.requests) : CtxRows(e) = {}]_vars

\* C14 witness: an incremental run over a non-empty index has selected an
\* exchange and has left out an unindexed one older than the lookback.
C14_Witness ==
    /\ run.pc = "loop"
    /\ ~run.forceRecreate
    /\ requests_context # {}
    /\ Len(run.requests) > 0
    /\ \E e \in ExchangeIds \ Range(run.requests) :
          /\ CtxRows(e) = {}
          /\ requests[e].timestamp < LatestIndexed - Lookback

\* The context row of e exists and has no response-derived field.
IndexedWithoutResponse(e) ==
    \E c \in CtxRows(e) :
        /\ c.stop_reason = None
        /\ c.response_signature = None
        /\ c.response_message_id = None

\* C15 as stated: an incremental run selects again every exchange inside
\* the lookback window that was indexed without its response and whose
\* response has been captured since.
C15_ReselectedWhenResponseArrives ==
    [][(Selects /\ ~run'.forceRecreate) =>
          \A e \in ExchangeIds :
              (/\ IndexedWithoutResponse(e)
               /\ requests[e].response.present
               /\ requests[e].timestamp >= LatestIndexed - Lookback)
              => e \in Range(run'.requests)]_vars

\* C16: a full selection, and an incremental one over an empty index,
\* return every captured exchange once in non-decreasing timestamp order,
\* and the run calls IndexRequest on them in that order.
C16_FullSelectionInOrder ==
    [][/\ (Selects /\ (run'.forceRecreate \/ requests_context = {})) =>
             /\ Range(run'.requests) = ExchangeIds
             /\ NoRepeat(run'.requests)
             /\ NonDecreasing(run'.requests)
       /\ Len(run'.attempted) <= Len(run'.requests)
       /\ run'.attempted = SubSeq(run'.requests, 1, Len(run'.attempted))
       /\ NonDecreasing(run'.attempted)]_vars

\* C16 witness: an incremental run found the existing index empty,
\* selected every exchange, two of them of the same timestamp, and has
\* gone through all of them.
C16_Witness ==
    /\ run.pc = "done"
    /\ run.runs = 2
    /\ ~run.forceRecreate
    /\ Len(run.requests) = Cardinality(ExchangeIds)
    /\ run.attempted = run.requests
    /\ \E i \in DOMAIN run.requests :
          /\ i > 1
          /\ requests[run.requests[i]].timestamp
               = requests[run.requests[i - 1]].timestamp

CountOf(q, v) == Cardinality({i \in DOMAIN q : q[i] = v})

\* C17: when a run ends, successes plus failures equal the exchanges
\* attempted; with continue-on-error these are the whole selection, else
\* the selection up to and including the first failure, which the run
\* returns; exchanges after it are not indexed and the successes before it
\* stay committed.
C17_CountsAddUp ==
    run.pc = "done" =>
        /\ run.successCount + run.errorCount = Len(run.attempted)
        /\ run.successCount = CountOf(run.outcomes, "ok")
        /\ run.errorCount = CountOf(run.outcomes, "error")
        /\ Len(run.outcomes) = Len(run.attempted)
        /\ run.attempted = SubSeq(run.requests, 1, Len(run.attempted))
        /\ run.continueOnError =>
              run.attempted = run.requests /\ run.result = "ok"
        /\ ~run.continueOnError =>
              \/ /\ run.errorCount = 0
                 /\ run.attempted = run.requests
                 /\ run.result = "ok"
              \/ /\ run.errorCount = 1
                 /\ run.outcomes[Len(run.outcomes)] = "error"
                 /\ run.result = "error"
                 /\ \A i \in (Len(run.attempted) + 1)..Len(run.requests) :
                       CtxRows(run.requests[i]) = {}
        /\ \A i \in DOMAIN run.outcomes :
              IF run.outcomes[i] = "ok" /\ ~EmptyRequest(run.attempted[i])
              THEN CtxRows(run.attempted[i]) # {}
              ELSE CtxRows(run.attempted[i]) = {}

\* C17 witness: a run in the default mode has stopped at its first
\* failure after indexing an exchange, leaving selected exchanges behind.
C17_Witness ==
    /\ run.pc = "done"
    /\ ~run.continueOnError
    /\ run.result = "error"
    /\ run.successCount > 0
    /\ Len(run.attempted) < Len(run.requests)
    /\ requests_context # {}

\* The ids behind the context of the exchange searched from.
SearchedIds == fin[Get(fout).id]

\* The number of ids the search prefix drops from a list of n ids.
Dropped(n) == IF n >= 4 THEN 2 ELSE IF n >= 2 THEN 1 ELSE 0

\* The id list of the search prefix.
PrefixIds ==
    SubSeq(SearchedIds, 1, Len(SearchedIds) - Dropped(Len(SearchedIds)))

IdText(ids) == Join([i \in DOMAIN ids |-> FormatInt(ids[i])], ",")

\* C18: the search prefix is the context id list without its last k ids,
\* k = 2 for four or more ids, 1 for two or three, 0 otherwise; it is
\* non-empty when the context is and is a prefix of the id sequence.
C18_PrefixDropsLast ==
    IsSome(fout) =>
        /\ Get(fout).prefix = IdText(PrefixIds)
        /\ Len(SearchedIds) > 0 => Get(fout).prefix # ""
        /\ \E n \in 0..Len(SearchedIds) :
              Get(fout).prefix = IdText(SubSeq(SearchedIds, 1, n))

\* C18 witness: prefixes were computed from a context of five ids, which
\* loses two.
C18_Witness ==
    /\ IsSome(fout)
    /\ Len(SearchedIds) = 5
    /\ Get(fout).prefix = IdText(SubSeq(SearchedIds, 1, 3))

\* ids starts with the id list p, id by id.
StartsWithIds(ids, p) ==
    Len(p) <= Len(ids) /\ SubSeq(ids, 1, Len(p)) = p

\* C19 as stated: the search returns exactly the indexed exchanges whose
\* context id list starts with the prefix id list, the empty prefix
\* included, each once, ordered by timestamp ascending.
C19_FindsAllWithPrefix ==
    IsSome(fout) =>
        LET results == Get(fout).results IN
        /\ {results[i].id : i \in DOMAIN results} =
              {e \in FoundIds : StartsWithIds(fin[e], PrefixIds)}
        /\ \A i, j \in DOMAIN results :
              /\ i < j => results[i].timestamp <= results[j].timestamp
              /\ results[i].id = results[j].id => i = j

\* The position rows of exchange e.
PositionRows(e) == {m \in messages : m.id = e}

C22_ContentRowsImmutable ==
    [][/\ rebuilds' = rebuilds =>
             \A r \in message_content : r \in message_content'
       /\ \A r \in message_content' \ message_content :
             /\ r.message_hash \notin {x.message_hash : x \in message_content}
                  \/ rebuilds' # rebuilds
             /\ \E w \in Workers :
                   /\ tx[w].pc = "commit"
                   /\ tx'[w].pc = "done" /\ tx'[w].result = "ok"
                   /\ tx[w].req = r.created_by
       /\ \A r \in message_content' : CtxRows(r.created_by)' # {}]_vars

\* C22 witness: the first exchange is indexed after the longer one, its
\* message and its response found under the ids the longer one's call
\* stored, and it created no content row.
C22_Witness ==
    /\ \E c \in CtxRows("e1") :
          /\ IsSome(c.response_message_id)
          /\ \E r \in message_content :
                r.id = Get(c.response_message_id) /\ r.created_by = "e2"
          /\ \E r \in message_content :
                r.id = c.last_message_id /\ r.created_by = "e2"
    /\ \A r \in message_content : r.created_by # "e1"

\* C23 as stated: every context row that refers to a response message
\* records a streaming flag, a response role and a response signature,
\* whether the response was a buffered body or streamed chunks.
C23_MetadataAlwaysRecorded ==
    \A c \in requests_context :
        IsSome(c.response_message_id) =>
            /\ IsSome(c.streaming)
            /\ IsSome(c.response_role)
            /\ IsSome(c.response_signature)

\* The metadata the response yields from its buffered body alone.
BufferedMeta(response) ==
    extractResponseMetadata([response EXCEPT !.streamingChunks = <<>>])

\* C24 as stated: when the buffered body yields a response signature or
\* a stop reason, every recorded metadata field is the one the body
\* yields and none is taken from the streaming chunks.
C24_ChunksOnlyWhenBodyEmpty ==
    \A c \in requests_context :
        LET b == BufferedMeta(requests[c.id].response) IN
        (IsSome(b.responseSignature) \/ IsSome(b.stopReason)) =>
            /\ c.stop_reason = b.stopReason
            /\ c.response_signature = b.responseSignature
            /\ c.response_id = b.responseID
            /\ c.response_role = b.responseRole
            /\ c.status_code = b.statusCode
            /\ c.streaming = b.streaming

\* The value a delta of the given kind carries.
DeltaValue(d, kind) ==
    IF kind = "text_delta" THEN d.text
    ELSE IF kind = "thinking_delta" THEN d.thinking
    ELSE d.partial_json

RECURSIVE DeltasOf(_, _, _)
\* The values of the deltas of one kind addressed to index i, joined in
\* arrival order.
DeltasOf(chunks, i, kind) ==
    IF Len(chunks) = 0 THEN ""
    ELSE LET ev == Head(chunks)
             rest == DeltasOf(Tail(chunks), i, kind)
         IN  IF /\ ev.valid
                /\ ev.type = "content_block_delta"
                /\ ev.index = Some(i)
                /\ IsSome(ev.delta)
                /\ Get(ev.delta).type = kind
                /\ IsSome(DeltaValue(Get(ev.delta), kind))
             THEN Get(DeltaValue(Get(ev.delta), kind)) \o rest
             ELSE rest

\* The content block that started index i.
StartBlockOf(chunks, i) ==
    Get(chunks[CHOOSE k \in StartedAt(chunks, i) : TRUE].content_block)

ContentIds == {r.id : r \in message_content}

\* The ids a comma-joined id list names.
ListedIds(list) ==
    IF list = "" THEN {} ELSE Range(Split(list, ","))

C27_EventuallyIndexed ==
    \A e \in ExchangeIds :
        (WellFormed(e) /\ ~EmptyRequest(e)) ~> (CtxRows(e) # {})

RECURSIVE UpTo(_, _)
\* The part of s before the first ch.
UpTo(s, ch) ==
    IF s = "" \/ Head(s) = ch THEN ""
    ELSE Head(s) \o UpTo(Tail(s), ch)

\* A response signature without the =<name> suffix of its entries.
WithoutNames(sig) ==
    LET parts == Split(sig, ",")
    IN  Join([i \in DOMAIN parts |-> UpTo(parts[i], "=")], ",")

\* C28 as stated: a context row's response signature, the tool names
\* removed, is the stored signature of the content row its
\* response_message_id names.
C28_SignatureDescribesMessage ==
    \A c \in requests_context :
        (IsSome(c.response_signature) /\ IsSome(c.response_message_id)) =>
            \E r \in message_content :
                /\ r.id = Get(c.response_message_id)
                /\ WithoutNames(Get(c.response_signature)) = r.signature

\* The indexes for which the stream carries a content_block_start.
StartedIndexes(chunks) == {i \in 0..1 : StartedAt(chunks, i) # {}}

\* C29 as stated: the message replayed from a stream holds exactly one
\* content block for each index that was started and none for any other
\* index.
C29_OneBlockPerStartedIndex ==
    IsSome(fout) =>
        Len(Get(fout).result.msg.content.blocks)
            = Cardinality(StartedIndexes(Get(fout).chunks))

\* C30 as stated: whatever index the events of a streamed response
\* carry, none, a negative one or one beyond the blocks started, no call
\* ends in a runtime failure, and the call on a well-formed request
\* returns without error.
C30_ReplayNeverFails ==
    \A w \in Workers :
        tx[w].pc = "done" =>
            /\ tx[w].result # "panic"
            /\ (WellFormed(tx[w].req) /\ ~tx[w].reindex) => tx[w].err = ""

====
